---- MODULE Spec2Model ----
(***************************************************************************)
(* A model of the Simmer Automaton scheduler                               *)
(* (src/skills/simmer-automaton/automaton.py): the persisted state, the    *)
(* survival tier, the epsilon-greedy bandit and the steps of run_cycle.    *)
(*                                                                         *)
(* Numbers.  Money is counted in whole dollars.  The code compares the     *)
(* float (budget - spent + realized) / budget with 0.10, 0.30 and 0.70;    *)
(* for budget > 0 the model compares 10 * remaining with 1, 3 and 7 times  *)
(* the budget, which is the same comparison over the rationals.  Time is   *)
(* counted in whole days.  epsilon is counted in units of 1 / EpsDen, the  *)
(* decay factor in units of 1 / DecayDen; the configurations of the model  *)
(* use dyadic values so that every product the model forms is exact.       *)
(***************************************************************************)
EXTENDS Integers, Sequences, FiniteSets, TLC

\* ------------------------------------------------------------------------
\* Bounds of the model
\* ------------------------------------------------------------------------
MaxCycles == 2      \* cycle invocations started in one behaviour
MaxCyclesOne == 3   \* the same, when one skill is chosen per cycle
MaxTime == 1        \* the clock runs over 0 .. MaxTime (days)
MaxLoss == 21       \* compute_tier on its own: realized_pnl >= -MaxLoss
MaxGain == 6        \* compute_tier on its own: realized_pnl <= MaxGain
MaxSkills == 3      \* select_skills on its own: at most MaxSkills skills
MaxN == 3           \* select_skills on its own: n <= MaxN
MaxCyclesDry == 3   \* cycle invocations started, when all are dry runs
MaxCyclesTwo == 2   \* the same, when all are live cycles over two skills
MaxCyclesPair == 2  \* the same, when a second invocation runs alongside
MaxCyclesSeq == 2   \* the same, when launch and resolution are two steps
MaxCyclesLive == 2  \* the same, when every step is taken sooner or later

\* Units of the fixed-point numbers
EpsDen == 1024      \* state["epsilon"] = epsilon / EpsDen
DecayDen == 2       \* config["epsilon_decay"] = epsilon_decay / DecayDen

\* "last_run": None
NoRun == -1

Tiers == {"thriving", "normal", "conserving", "critical", "dead"}

Min(a, b) == IF a <= b THEN a ELSE b
Max(a, b) == IF a >= b THEN a ELSE b

\* ------------------------------------------------------------------------
\* Inputs: configurations, discovery passes, collaborator answers
\* ------------------------------------------------------------------------
\* config = dict(_config) with the CLI overrides of main().
\* epsilon 1/4, epsilon_decay 1/2, min_epsilon 1/8.
BaseConfig ==
  [budget_usd |-> 20, horizon_days |-> 1, epsilon |-> 256, epsilon_decay |-> 1,
   min_epsilon |-> 128, max_concurrent |-> 2,
   budget_override |-> FALSE, days_override |-> FALSE]

\* The defaults; "--budget 0 --days 2"; a configuration whose min_epsilon (1/2)
\* is above its epsilon and whose epsilon_decay (3/2) is above 1.
Configs ==
  { BaseConfig,
    [BaseConfig EXCEPT !.budget_usd = 0, !.budget_override = TRUE,
                       !.horizon_days = 2, !.days_override = TRUE],
    [BaseConfig EXCEPT !.min_epsilon = 512, !.epsilon_decay = 3,
                       !.max_concurrent = 1] }

\* One entry of discover_skills(): {slug, source_tag, entrypoint, dir}.
Sk(slug, tag, entry) ==
  [slug |-> slug, source_tag |-> tag, entrypoint |-> entry, dir |-> slug]

\* discover_skills() walks sorted(skills_dir.iterdir()): a list sorted by slug.
Discoveries ==
  { << >>,
    << Sk("a", "sdk:a", "run.py") >>,
    << Sk("a", "sdk:a", "run.py"), Sk("b", "sdk:b", "run.py") >>,
    << Sk("b", "sdk:a", "main.py") >> }

\* What the collaborator answers in step 3: fetch_skill_pnl() gives
\* dict[source_tag] = net_pnl, a tag with no trade being absent and a failed
\* venue query giving no trade; fetch_unrealized() gives total_exposure, or 0.0
\* on any failure.
Answers ==
  { [pnl |-> << >>, exposure |-> 0],
    [pnl |-> ("sdk:a" :> 5), exposure |-> 7],
    [pnl |-> ("sdk:a" :> 5) @@ ("sdk:b" :> -20), exposure |-> 7],
    [pnl |-> ("sdk:a" :> -19), exposure |-> 0],
    [pnl |-> ("manual" :> -20), exposure |-> 7] }

\* What fetch_skill_pnl() answers in steps 7 and 9.
Snapshots ==
  { << >>,
    ("sdk:a" :> 5) @@ ("sdk:b" :> -20) }

\* run_skill(): exit code 0, a non-zero exit, TimeoutExpired, any other exception.
Outcomes == {"ok", "exit", "timeout", "error"}

\* The part of run_skill()'s result run_cycle reads.
run_result(outcome) == [success |-> outcome = "ok"]

\* ------------------------------------------------------------------------
\* Dictionaries
\* ------------------------------------------------------------------------
\* d.get(k, 0.0)
Get(d, k) == IF k \in DOMAIN d THEN d[k] ELSE 0

RECURSIVE SumOver(_, _)
SumOver(d, keys) ==
  IF keys = {} THEN 0
  ELSE LET k == CHOOSE x \in keys : TRUE
       IN d[k] + SumOver(d, keys \ {k})

\* sum(pnl_snapshot.values())
SumValues(d) == SumOver(d, DOMAIN d)

\* state["skills"] is a dict in insertion order: a sequence of records with
\* distinct slugs.
SlugsOf(skills) == { skills[i].slug : i \in 1 .. Len(skills) }

IndexOf(skills, slug) == CHOOSE i \in 1 .. Len(skills) : skills[i].slug = slug

\* ------------------------------------------------------------------------
\* State persistence
\* ------------------------------------------------------------------------
init_state(budget, days, epsilon, t) ==
  [version |-> 1, started_at |-> t, budget_usd |-> budget, horizon_days |-> days,
   spent_usd |-> 0, realized_pnl |-> 0, unrealized_pnl |-> 0, tier |-> "normal",
   epsilon |-> epsilon, cycle_count |-> 0, tier_history |-> << >>, skills |-> << >>]

\* The value the model's variables hold when there is no state.
NoState == init_state(0, 0, 0, 0)

\* ------------------------------------------------------------------------
\* Survival tier
\* ------------------------------------------------------------------------
\* compute_tier with the critical threshold taken inclusively.
compute_tier_inclusive(state, t) ==
  LET budget == state.budget_usd
      realized == state.realized_pnl
      remaining == budget - state.spent_usd + realized
      days_elapsed == t - state.started_at
  IN IF budget <= 0 THEN "dead"
     ELSE IF remaining <= 0 \/ days_elapsed >= state.horizon_days THEN "dead"
     ELSE IF 10 * remaining <= budget THEN "critical"
     ELSE IF 10 * remaining < 3 * budget THEN "conserving"
     ELSE IF realized > 0 /\ 10 * remaining > 7 * budget THEN "thriving"
     ELSE "normal"

compute_tier(state, t) ==
  LET budget == state.budget_usd
      realized == state.realized_pnl
      remaining == budget - state.spent_usd + realized
      days_elapsed == t - state.started_at
  IN IF budget <= 0 THEN "dead"
     ELSE IF remaining <= 0 \/ days_elapsed >= state.horizon_days THEN "dead"
     ELSE IF 10 * remaining < budget THEN "critical"
     ELSE IF 10 * remaining < 3 * budget THEN "conserving"
     ELSE IF realized > 0 /\ 10 * remaining > 7 * budget THEN "thriving"
     ELSE "normal"

\* tier_max_skills without the limit of one skill under pressure.
tier_max_skills_flat(tier, max_concurrent) ==
  IF tier = "dead" THEN 0 ELSE max_concurrent

tier_max_skills(tier, max_concurrent) ==
  IF tier \in {"thriving", "normal"} THEN max_concurrent
  ELSE IF tier \in {"conserving", "critical"} THEN 1
  ELSE 0

\* tier_effective_epsilon with the critical tier exploring like the conserving.
tier_effective_epsilon_lenient(tier, epsilon) ==
  IF tier \in {"thriving", "normal"} THEN 2 * epsilon
  ELSE IF tier \in {"conserving", "critical"} THEN epsilon
  ELSE 0

\* The effective exploration rate in units of 1 / (2 * EpsDen), so that the
\* conserving tier's epsilon * 0.5 is exact.
tier_effective_epsilon(tier, epsilon) ==
  IF tier \in {"thriving", "normal"} THEN 2 * epsilon
  ELSE IF tier = "conserving" THEN epsilon
  ELSE 0

\* ------------------------------------------------------------------------
\* Epsilon-greedy bandit
\* ------------------------------------------------------------------------
\* _avg_reward(x) > _avg_reward(y), where _avg_reward is total_pnl /
\* times_selected and float("inf") for an unplayed skill.
AvgGreater(x, y) ==
  IF x.times_selected = 0 THEN y.times_selected # 0
  ELSE IF y.times_selected = 0 THEN FALSE
  ELSE x.total_pnl * y.times_selected > y.total_pnl * x.times_selected

\* seq[:n]
Take(seq, n) ==
  IF n >= 0 THEN SubSeq(seq, 1, Min(n, Len(seq)))
  ELSE SubSeq(seq, 1, Max(0, Len(seq) + n))

Range(seq) == { seq[i] : i \in 1 .. Len(seq) }

\* [s for s in seq if s not in chosen]
Without(seq, chosen) == SelectSeq(seq, LAMBDA s : s \notin chosen)

\* random.sample(population, k): every ordered choice of k distinct elements.
RECURSIVE Sample(_, _)
Sample(population, k) ==
  IF k = 0 THEN { << >> }
  ELSE UNION { { <<x>> \o rest : rest \in Sample(Without(population, {x}), k - 1) }
               : x \in Range(population) }

\* sorted(slugs, key=_avg_reward, reverse=True): a stable sort, so equal
\* averages keep their order.
RECURSIVE InsertDesc(_, _, _)
InsertDesc(sorted, s, rec) ==
  IF sorted = << >> THEN <<s>>
  ELSE IF AvgGreater(rec[s], rec[Head(sorted)]) THEN <<s>> \o sorted
  ELSE <<Head(sorted)>> \o InsertDesc(Tail(sorted), s, rec)

RECURSIVE SortedDesc(_, _)
SortedDesc(slugs, rec) ==
  IF slugs = << >> THEN << >>
  ELSE InsertDesc(SortedDesc(SubSeq(slugs, 1, Len(slugs) - 1), rec),
                  slugs[Len(slugs)], rec)

\* max(available, key=_avg_reward): the first element with the largest key.
Best(available, rec) ==
  LET i == CHOOSE i \in 1 .. Len(available) :
             /\ \A j \in 1 .. Len(available) :
                  ~AvgGreater(rec[available[j]], rec[available[i]])
             /\ \A j \in 1 .. i - 1 :
                  AvgGreater(rec[available[i]], rec[available[j]])
  IN available[i]

\* The loop "for _ in range(n)" of the epsilon-greedy branch; random.random()
\* lies in [0, 1), so a draw can explore iff epsilon > 0 and can exploit iff
\* epsilon < 1.  eff is in units of 1 / (2 * EpsDen).
RECURSIVE Draws(_, _, _, _)
Draws(available, k, eff, rec) ==
  IF k <= 0 \/ available = << >> THEN { << >> }
  ELSE LET explore == IF eff > 0 THEN Range(available) ELSE {}
           exploit == IF eff < 2 * EpsDen THEN {Best(available, rec)} ELSE {}
       IN UNION { { <<pick>> \o rest :
                      rest \in Draws(Without(available, {pick}), k - 1, eff, rec) }
                  : pick \in explore \cup exploit }

\* EnabledSlugs without the filter on "enabled".
EnabledSlugsUnfiltered(state) ==
  [i \in 1 .. Len(state.skills) |-> state.skills[i].slug]

\* The enabled skills of a state, in dict order.
EnabledSlugs(state) ==
  LET enabled == SelectSeq(state.skills, LAMBDA r : r.enabled)
  IN [i \in 1 .. Len(enabled) |-> enabled[i].slug]

\* random.sample raises ValueError for a negative sample size.
select_skills_raises(state, n) ==
  LET slugs == EnabledSlugs(state)
      rec == [s \in SlugsOf(state.skills) |-> state.skills[IndexOf(state.skills, s)]]
      unplayed == SelectSeq(slugs, LAMBDA s : rec[s].times_selected = 0)
  IN slugs # << >> /\ unplayed # << >> /\ Min(n, Len(slugs)) < 0

\* select_skills without the branch that puts unplayed skills first.
select_skills_no_priority(state, n) ==
  LET slugs == EnabledSlugs(state)
      rec == [s \in SlugsOf(state.skills) |-> state.skills[IndexOf(state.skills, s)]]
      eff == tier_effective_epsilon(state.tier, state.epsilon)
      m == Min(n, Len(slugs))
  IN IF slugs = << >> THEN { << >> }
     ELSE IF state.tier = "critical" THEN { Take(SortedDesc(slugs, rec), m) }
     ELSE Draws(slugs, m, eff, rec)

\* select_skills sampling among all the enabled skills while one is unplayed.
select_skills_any_first(state, n) ==
  LET slugs == EnabledSlugs(state)
      rec == [s \in SlugsOf(state.skills) |-> state.skills[IndexOf(state.skills, s)]]
      eff == tier_effective_epsilon(state.tier, state.epsilon)
      m == Min(n, Len(slugs))
      unplayed == SelectSeq(slugs, LAMBDA s : rec[s].times_selected = 0)
  IN IF slugs = << >> THEN { << >> }
     ELSE IF unplayed # << >> THEN Sample(slugs, Max(m, 0))
     ELSE IF state.tier = "critical" THEN { Take(SortedDesc(slugs, rec), m) }
     ELSE Draws(slugs, m, eff, rec)

\* sorted(slugs, key=_avg_reward): the stable sort without reverse=True.
RECURSIVE InsertAsc(_, _, _)
InsertAsc(sorted, s, rec) ==
  IF sorted = << >> THEN <<s>>
  ELSE IF AvgGreater(rec[Head(sorted)], rec[s]) THEN <<s>> \o sorted
  ELSE <<Head(sorted)>> \o InsertAsc(Tail(sorted), s, rec)

RECURSIVE SortedAsc(_, _)
SortedAsc(slugs, rec) ==
  IF slugs = << >> THEN << >>
  ELSE InsertAsc(SortedAsc(SubSeq(slugs, 1, Len(slugs) - 1), rec),
                 slugs[Len(slugs)], rec)

\* select_skills ranking the critical tier's skills from the worst average.
select_skills_worst_first(state, n) ==
  LET slugs == EnabledSlugs(state)
      rec == [s \in SlugsOf(state.skills) |-> state.skills[IndexOf(state.skills, s)]]
      eff == tier_effective_epsilon(state.tier, state.epsilon)
      m == Min(n, Len(slugs))
      unplayed == SelectSeq(slugs, LAMBDA s : rec[s].times_selected = 0)
  IN IF slugs = << >> THEN { << >> }
     ELSE IF unplayed # << >> THEN
       IF m < 0 THEN {}
       ELSE { Take(first \o rest, m) :
                <<first, rest>> \in
                  UNION { { <<f, r>> :
                              r \in IF Len(f) < m
                                    THEN LET remaining == Without(slugs, Range(f))
                                         IN Sample(remaining,
                                                   Min(m - Len(f), Len(remaining)))
                                    ELSE { << >> } }
                          : f \in Sample(unplayed, Min(m, Len(unplayed))) } }
     ELSE IF state.tier = "critical" THEN { Take(SortedAsc(slugs, rec), m) }
     ELSE Draws(slugs, m, eff, rec)

\* select_skills returning the sample of unplayed skills without filling it
\* up from the remaining skills.
select_skills_no_fill(state, n) ==
  LET slugs == EnabledSlugs(state)
      rec == [s \in SlugsOf(state.skills) |-> state.skills[IndexOf(state.skills, s)]]
      eff == tier_effective_epsilon(state.tier, state.epsilon)
      m == Min(n, Len(slugs))
      unplayed == SelectSeq(slugs, LAMBDA s : rec[s].times_selected = 0)
  IN IF slugs = << >> THEN { << >> }
     ELSE IF unplayed # << >> THEN Sample(unplayed, Min(m, Len(unplayed)))
     ELSE IF state.tier = "critical" THEN { Take(SortedDesc(slugs, rec), m) }
     ELSE Draws(slugs, m, eff, rec)

\* select_skills(state, n): the set of lists the call can return.
select_skills(state, n) ==
  LET slugs == EnabledSlugs(state)
      rec == [s \in SlugsOf(state.skills) |-> state.skills[IndexOf(state.skills, s)]]
      eff == tier_effective_epsilon(state.tier, state.epsilon)
      m == Min(n, Len(slugs))
      unplayed == SelectSeq(slugs, LAMBDA s : rec[s].times_selected = 0)
  IN IF slugs = << >> THEN { << >> }
     ELSE IF unplayed # << >> THEN
       IF m < 0 THEN {}
       ELSE { Take(first \o rest, m) :
                <<first, rest>> \in
                  UNION { { <<f, r>> :
                              r \in IF Len(f) < m
                                    THEN LET remaining == Without(slugs, Range(f))
                                         IN Sample(remaining,
                                                   Min(m - Len(f), Len(remaining)))
                                    ELSE { << >> } }
                          : f \in Sample(unplayed, Min(m, Len(unplayed))) } }
     ELSE IF state.tier = "critical" THEN { Take(SortedDesc(slugs, rec), m) }
     ELSE Draws(slugs, m, eff, rec)

\* update_bandit counting a run without loss as rewarded.
update_bandit_no_loss(state, slug, pnl_before, pnl_after, t) ==
  IF slug \notin SlugsOf(state.skills) THEN state
  ELSE LET i == IndexOf(state.skills, slug)
           skill == state.skills[i]
           delta == Get(pnl_after, skill.source_tag) - Get(pnl_before, skill.source_tag)
       IN [state EXCEPT !.skills[i] =
             [skill EXCEPT !.total_pnl = @ + delta,
                           !.times_selected = @ + 1,
                           !.times_rewarded = IF delta >= 0 THEN @ + 1 ELSE @,
                           !.last_run = t]]

\* update_bandit(state, slug, pnl_before, pnl_after) at time t.
update_bandit(state, slug, pnl_before, pnl_after, t) ==
  IF slug \notin SlugsOf(state.skills) THEN state
  ELSE LET i == IndexOf(state.skills, slug)
           skill == state.skills[i]
           delta == Get(pnl_after, skill.source_tag) - Get(pnl_before, skill.source_tag)
       IN [state EXCEPT !.skills[i] =
             [skill EXCEPT !.total_pnl = @ + delta,
                           !.times_selected = @ + 1,
                           !.times_rewarded = IF delta > 0 THEN @ + 1 ELSE @,
                           !.last_run = t]]

\* ------------------------------------------------------------------------
\* Skill registry: the sync of the discovered skills into the state
\* ------------------------------------------------------------------------
NewSkill(sk) ==
  [slug |-> sk.slug, source_tag |-> sk.source_tag, entrypoint |-> sk.entrypoint,
   total_pnl |-> 0, times_selected |-> 0, times_rewarded |-> 0,
   last_run |-> NoRun, enabled |-> TRUE]

\* SyncDiscovered replacing the record of a rediscovered skill by a new one.
RECURSIVE SyncDiscoveredResetting(_, _)
SyncDiscoveredResetting(skills, discovered) ==
  IF discovered = << >> THEN skills
  ELSE LET sk == Head(discovered)
           synced ==
             IF sk.slug \notin SlugsOf(skills) THEN Append(skills, NewSkill(sk))
             ELSE [skills EXCEPT ![IndexOf(skills, sk.slug)] = NewSkill(sk)]
       IN SyncDiscoveredResetting(synced, Tail(discovered))

\* "for sk in discovered": insert a new record or refresh source_tag/entrypoint.
RECURSIVE SyncDiscovered(_, _)
SyncDiscovered(skills, discovered) ==
  IF discovered = << >> THEN skills
  ELSE LET sk == Head(discovered)
           synced ==
             IF sk.slug \notin SlugsOf(skills) THEN Append(skills, NewSkill(sk))
             ELSE [skills EXCEPT ![IndexOf(skills, sk.slug)] =
                     [@ EXCEPT !.source_tag = sk.source_tag,
                               !.entrypoint = sk.entrypoint]]
       IN SyncDiscovered(synced, Tail(discovered))

\* "Mark skills no longer discovered as disabled".
DisableMissing(skills, discovered) ==
  LET discovered_slugs == { discovered[i].slug : i \in 1 .. Len(discovered) }
  IN [i \in 1 .. Len(skills) |->
        IF skills[i].slug \notin discovered_slugs
        THEN [skills[i] EXCEPT !.enabled = FALSE]
        ELSE skills[i]]

reconcile(state, discovered) ==
  [state EXCEPT !.skills = DisableMissing(SyncDiscovered(@, discovered), discovered)]

\* ------------------------------------------------------------------------
\* The state of the model
\* ------------------------------------------------------------------------
VARIABLES
  now,          \* datetime.now(timezone.utc), in days
  fileKind,     \* STATE_FILE: "absent", "ok" (a complete dump), "partial"
                \* (not JSON) or "garbled" (not UTF-8, or JSON but not a state)
  fileState,    \* the state STATE_FILE holds when fileKind = "ok"
  cycles,       \* invocations of run_cycle started so far
  pc,           \* the position of the running invocation in run_cycle
  cfg,          \* run_cycle's config
  mode,         \* run_cycle's live flag, and whether SIMMER_API_KEY is set
  mem,          \* run_cycle's local: state
  old,          \* the state as load_state()/init_state() returned it
  discovered,   \* run_cycle's local: discovered
  selected,     \* run_cycle's local: selected
  idx,          \* the position of "for slug in selected" (step 8)
  results,      \* run_cycle's local: run_results (slug -> outcome)
  pnl_before,   \* run_cycle's local: pnl_before, until its last use
  launched,     \* the skills run_skill() was called for, in order
  writes,       \* the calls of save_state() in this invocation
  stop,         \* how the invocation ended
  picks,        \* history: how often select_skills() returned each slug
  allOk,        \* history: every run so far succeeded and no invocation died
  arg,          \* the arguments of a function called on its own
  ret,          \* what that call returned
  other,        \* a second invocation of run_cycle on the same file (a dry
                \* run), and who wrote the file last
  running       \* the skill processes this invocation launched that have
                \* not resolved yet

vars == <<now, fileKind, fileState, cycles, pc, cfg, mode, mem, old, discovered,
          selected, idx, results, pnl_before, launched, writes, stop, picks, allOk,
          arg, ret, other, running>>

disk == <<fileKind, fileState>>
locals == <<cfg, mode, mem, old, discovered, selected, idx, results, pnl_before,
            launched, writes, stop>>
history == <<picks, allOk>>
call == <<arg, ret>>

\* (live, SIMMER_API_KEY set).  A dry run never calls get_client(), so the
\* key plays no part in it.
Modes ==
  { [live |-> FALSE, key |-> FALSE],
    [live |-> TRUE, key |-> TRUE],
    [live |-> TRUE, key |-> FALSE] }

NoLocals ==
  /\ cfg' = BaseConfig
  /\ mode' = [live |-> FALSE, key |-> FALSE]
  /\ mem' = NoState
  /\ old' = NoState
  /\ discovered' = << >>
  /\ selected' = << >>
  /\ idx' = 0
  /\ results' = << >>
  /\ pnl_before' = << >>
  /\ launched' = << >>
  /\ writes' = 0
  /\ stop' = ""

NoArg == [fn |-> "none"]

\* No second invocation yet.  loadCycle, loadEarly and openCycle record where
\* the first invocation stood when the second loaded and began to save; last
\* and overlaid record the writes to the file.
NoOther ==
  [pc |-> "idle", mem |-> NoState, old |-> NoState, stop |-> "",
   loadCycle |-> 0, loadEarly |-> FALSE, openCycle |-> 0,
   last |-> "none", overlaid |-> FALSE]

Idle ==
  /\ now = 0
  /\ fileKind = "absent"
  /\ fileState = NoState
  /\ cycles = 0
  /\ pc = "idle"
  /\ cfg = BaseConfig
  /\ mode = [live |-> FALSE, key |-> FALSE]
  /\ mem = NoState
  /\ old = NoState
  /\ discovered = << >>
  /\ selected = << >>
  /\ idx = 0
  /\ results = << >>
  /\ pnl_before = << >>
  /\ launched = << >>
  /\ writes = 0
  /\ stop = ""
  /\ picks = << >>
  /\ allOk = TRUE

NoRet == [done |-> FALSE]

Init ==
  /\ Idle
  /\ arg = NoArg
  /\ ret = NoRet
  /\ other = NoOther
  /\ running = {}

\* ------------------------------------------------------------------------
\* run_cycle, step by step
\* ------------------------------------------------------------------------
\* load_state(): None when the file is absent or does not parse.
load_state_none == fileKind \in {"absent", "partial"}

\* load_state() catches JSONDecodeError and IOError only: bytes that are not
\* UTF-8 raise UnicodeDecodeError out of it, and JSON that is no state (such
\* as {} or []) is returned and raises KeyError or TypeError at the first
\* state["skills"].  Either way the invocation dies before any save.
load_state_fatal == fileKind = "garbled"

\* Step 1: load or init the state, apply the CLI overrides to a loaded state.
StartOn(C, M, limit) ==
  /\ pc = "idle"
  /\ cycles < limit
  /\ \E c \in C, m \in M :
       LET loaded == IF load_state_none
                     THEN init_state(c.budget_usd, c.horizon_days, c.epsilon, now)
                     ELSE fileState
           b == IF ~load_state_none /\ c.budget_override
                THEN [loaded EXCEPT !.budget_usd = c.budget_usd] ELSE loaded
           d == IF ~load_state_none /\ c.days_override
                THEN [b EXCEPT !.horizon_days = c.horizon_days] ELSE b
       IN /\ cfg' = c
          /\ mode' = m
          /\ old' = IF load_state_fatal THEN NoState ELSE loaded
          /\ mem' = IF load_state_fatal THEN NoState ELSE d
  /\ cycles' = cycles + 1
  /\ pc' = IF load_state_fatal THEN "done" ELSE "discover"
  /\ stop' = IF load_state_fatal THEN "fatal" ELSE stop
  /\ UNCHANGED <<now, disk, discovered, selected, idx, results, pnl_before,
                 launched, writes, history, call, other, running>>

\* DiscoverOn counting the cycle when no skill is known.
DiscoverCountingOn(D) ==
  /\ pc = "discover"
  /\ \E d \in D :
       /\ discovered' = d
       /\ mem' = IF reconcile(mem, d).skills = << >>
                 THEN [reconcile(mem, d) EXCEPT !.cycle_count = @ + 1]
                 ELSE reconcile(mem, d)
  /\ IF mem'.skills = << >>
     THEN /\ pc' = "save"
          /\ stop' = "no-skills"
     ELSE /\ pc' = IF mode.live THEN "refresh" ELSE "tier"
          /\ stop' = stop
  /\ UNCHANGED <<now, disk, cycles, cfg, mode, old, selected, idx, results,
                 pnl_before, launched, writes, history, call, other, running>>

\* Step 2: discover the skills and sync them into the state; with no skill
\* known, save and return.
DiscoverOn(D) ==
  /\ pc = "discover"
  /\ \E d \in D :
       /\ discovered' = d
       /\ mem' = reconcile(mem, d)
  /\ IF mem'.skills = << >>
     THEN /\ pc' = "save"
          /\ stop' = "no-skills"
     ELSE /\ pc' = IF mode.live THEN "refresh" ELSE "tier"
          /\ stop' = stop
  /\ UNCHANGED <<now, disk, cycles, cfg, mode, old, selected, idx, results,
                 pnl_before, launched, writes, history, call, other, running>>

\* RefreshOn booking the open exposure as spend.
RefreshSpendingOn(A) ==
  /\ pc = "refresh"
  /\ IF ~mode.key
     THEN /\ pc' = "done"
          /\ stop' = "fatal"
          /\ mem' = mem
     ELSE /\ \E answer \in A :
               mem' = [mem EXCEPT !.unrealized_pnl = answer.exposure,
                                  !.realized_pnl = SumValues(answer.pnl),
                                  !.spent_usd = answer.exposure]
          /\ pc' = "tier"
          /\ stop' = stop
  /\ UNCHANGED <<now, disk, cycles, cfg, mode, old, discovered, selected, idx,
                 results, pnl_before, launched, writes, history, call, other, running>>

\* Step 3 (live only): get_client() exits when the key is missing; otherwise
\* realized and unrealized P&L are overwritten from the collaborator's answers.
RefreshOn(A) ==
  /\ pc = "refresh"
  /\ IF ~mode.key
     THEN /\ pc' = "done"
          /\ stop' = "fatal"
          /\ mem' = mem
     ELSE /\ \E answer \in A :
               mem' = [mem EXCEPT !.unrealized_pnl = answer.exposure,
                                  !.realized_pnl = SumValues(answer.pnl)]
          /\ pc' = "tier"
          /\ stop' = stop
  /\ UNCHANGED <<now, disk, cycles, cfg, mode, old, discovered, selected, idx,
                 results, pnl_before, launched, writes, history, call, other, running>>

\* with_tier appending a record whether or not the tier changed.
with_tier_always(state, t) ==
  [state EXCEPT
     !.tier = compute_tier(state, t),
     !.tier_history =
       Append(@, [from |-> state.tier, to |-> compute_tier(state, t), at |-> t])]

\* with_tier keeping the tier that was loaded.
with_tier_cached(state, t) == state

\* Steps 4 and 5: compute the tier, log a transition, stop when dead.
with_tier(state, t) ==
  LET old_tier == state.tier
      new_tier == compute_tier(state, t)
  IN [state EXCEPT
        !.tier = new_tier,
        !.tier_history =
          IF new_tier # old_tier
          THEN Append(@, [from |-> old_tier, to |-> new_tier, at |-> t])
          ELSE @]

\* ComputeTier without the check for death of step 5.
ComputeTierNoDeathCheck ==
  /\ pc = "tier"
  /\ mem' = with_tier(mem, now)
  /\ pc' = "select"
  /\ UNCHANGED <<now, disk, cycles, cfg, mode, old, discovered, selected, idx,
                 results, pnl_before, launched, writes, stop, history, call, other, running>>

ComputeTier ==
  /\ pc = "tier"
  /\ mem' = with_tier(mem, now)
  /\ IF mem'.tier = "dead"
     THEN /\ pc' = "save"
          /\ stop' = "dead"
     ELSE /\ pc' = "select"
          /\ stop' = stop
  /\ UNCHANGED <<now, disk, cycles, cfg, mode, old, discovered, selected, idx,
                 results, pnl_before, launched, writes, history, call, other, running>>

\* picks after a call of select_skills() that returned sel.
Picked(sel) ==
  [s \in DOMAIN picks \cup Range(sel) |->
     Get(picks, s) + (IF s \in Range(sel) THEN 1 ELSE 0)]

\* times_selected raised for every slug of sel.
Counted(state, sel) ==
  [state EXCEPT !.skills =
     [i \in 1 .. Len(@) |->
        IF @[i].slug \in Range(sel)
        THEN [@[i] EXCEPT !.times_selected = @ + 1]
        ELSE @[i]]]

\* SelectOn counting the selection in times_selected as it selects.
SelectCountingOn(track) ==
  /\ pc = "select"
  /\ LET max_n == tier_max_skills(mem.tier, cfg.max_concurrent)
     IN /\ selected' \in select_skills(mem, max_n)
        /\ IF mode.live
           THEN /\ pc' = "before"
                /\ mem' = Counted(mem, selected')
                /\ stop' = stop
           ELSE /\ mem' = [Counted(mem, selected') EXCEPT !.cycle_count = @ + 1]
                /\ pc' = "save"
                /\ stop' = "dry-run"
  /\ picks' = IF track THEN Picked(selected') ELSE picks
  /\ UNCHANGED <<now, disk, cycles, cfg, mode, old, discovered, idx, results,
                 pnl_before, launched, writes, allOk, call, other, running>>

\* Step 6: select the skills; a dry run counts the cycle, saves and returns.
\* With track, the history variables follow the selections and the runs.
SelectOn(track) ==
  /\ pc = "select"
  /\ LET max_n == tier_max_skills(mem.tier, cfg.max_concurrent)
     IN IF select_skills_raises(mem, max_n)
        THEN /\ pc' = "done"
             /\ stop' = "error"
             /\ UNCHANGED <<selected, mem>>
        ELSE /\ selected' \in select_skills(mem, max_n)
             /\ IF mode.live
                THEN /\ pc' = "before"
                     /\ UNCHANGED <<mem, stop>>
                ELSE /\ mem' = [mem EXCEPT !.cycle_count = @ + 1]
                     /\ pc' = "save"
                     /\ stop' = "dry-run"
  /\ picks' = IF track THEN Picked(selected') ELSE picks
  /\ UNCHANGED <<now, disk, cycles, cfg, mode, old, discovered, idx, results,
                 pnl_before, launched, writes, allOk, call, other, running>>

\* Step 7: the pre-run P&L snapshot.
SnapshotBeforeOn(P) ==
  /\ pc = "before"
  /\ pnl_before' \in P
  /\ idx' = 1
  /\ pc' = "run"
  /\ UNCHANGED <<now, disk, cycles, cfg, mode, mem, old, discovered, selected,
                 results, launched, writes, stop, history, call, other, running>>

\* RunSkillOn leaving the loop at the first run that fails.
RunSkillAbortingOn(O, track) ==
  /\ pc = "run"
  /\ idx <= Len(selected)
  /\ LET slug == selected[idx]
     IN \E o \in O :
          /\ results' = (slug :> run_result(o)) @@ results
          /\ launched' = Append(launched, slug)
          /\ idx' = IF o = "ok" THEN idx + 1 ELSE Len(selected) + 1
  /\ allOk' = IF track
              THEN allOk /\ \A s \in DOMAIN results' : results'[s].success
              ELSE allOk
  /\ UNCHANGED <<now, disk, cycles, pc, cfg, mode, mem, old, discovered, selected,
                 pnl_before, writes, stop, picks, call, other, running>>

\* Step 8, one turn of the loop: run_skill() for selected[idx], waited for.
RunSkillOn(O, track) ==
  /\ pc = "run"
  /\ idx <= Len(selected)
  /\ LET slug == selected[idx]
     IN IF slug \in SlugsOf(mem.skills)
           /\ slug \in { discovered[i].slug : i \in 1 .. Len(discovered) }
        THEN /\ \E o \in O : results' = (slug :> run_result(o)) @@ results
             /\ launched' = Append(launched, slug)
        ELSE UNCHANGED <<results, launched>>
  /\ idx' = idx + 1
  /\ allOk' = IF track
              THEN allOk /\ \A s \in DOMAIN results' : results'[s].success
              ELSE allOk
  /\ UNCHANGED <<now, disk, cycles, pc, cfg, mode, mem, old, discovered, selected,
                 pnl_before, writes, stop, picks, call, other, running>>

\* reward without the test of "success".
RECURSIVE reward_any_run(_, _, _, _, _, _)
reward_any_run(state, sel, res, before, after, t) ==
  IF sel = << >> THEN state
  ELSE LET slug == Head(sel)
           next == IF slug \in SlugsOf(state.skills)
                   THEN update_bandit(state, slug, before, after, t)
                   ELSE state
       IN reward_any_run(next, Tail(sel), res, before, after, t)

\* Step 10: update_bandit() for every selected skill whose run succeeded.
RECURSIVE reward(_, _, _, _, _, _)
reward(state, sel, res, before, after, t) ==
  IF sel = << >> THEN state
  ELSE LET slug == Head(sel)
           success == slug \in DOMAIN res /\ res[slug].success
           next == IF success /\ slug \in SlugsOf(state.skills)
                   THEN update_bandit(state, slug, before, after, t)
                   ELSE state
       IN reward(next, Tail(sel), res, before, after, t)

\* decay without the floor at min_epsilon.
decay_no_floor(state, config) ==
  [state EXCEPT !.epsilon = (@ * config.epsilon_decay) \div DecayDen]

\* decay applied twice.
decay_twice(state, config) ==
  [state EXCEPT !.epsilon =
     Max(config.min_epsilon,
         (Max(config.min_epsilon, (@ * config.epsilon_decay) \div DecayDen)
            * config.epsilon_decay) \div DecayDen)]

\* "Decay epsilon": max(min_epsilon, epsilon * epsilon_decay).
decay(state, config) ==
  [state EXCEPT !.epsilon =
     Max(config.min_epsilon, (@ * config.epsilon_decay) \div DecayDen)]

\* RewardOn without the increment of cycle_count.
RewardNotCountingOn(P) ==
  /\ pc = "run"
  /\ idx > Len(selected)
  /\ \E pnl_after \in P :
       mem' = decay(reward(mem, selected, results, pnl_before, pnl_after, now), cfg)
  /\ pnl_before' = << >>
  /\ pc' = "save"
  /\ stop' = "persisted"
  /\ UNCHANGED <<now, disk, cycles, cfg, mode, old, discovered, selected, idx,
                 results, launched, writes, history, call, other, running>>

\* Steps 9 and 10 and the lines after them: the post-run snapshot, the bandit
\* updates, the decay of epsilon and the cycle count.
RewardOn(P) ==
  /\ pc = "run"
  /\ idx > Len(selected)
  /\ \E pnl_after \in P :
       mem' = [decay(reward(mem, selected, results, pnl_before, pnl_after, now), cfg)
                 EXCEPT !.cycle_count = @ + 1]
  /\ pnl_before' = << >>
  /\ pc' = "save"
  /\ stop' = "persisted"
  /\ UNCHANGED <<now, disk, cycles, cfg, mode, old, discovered, selected, idx,
                 results, launched, writes, history, call, other, running>>

\* save_state(): open(p, "w") truncates the file ...
SaveOpen ==
  /\ pc = "save"
  /\ fileKind' = "partial"
  /\ fileState' = NoState
  /\ writes' = writes + 1
  /\ pc' = "write"
  /\ UNCHANGED <<now, cycles, cfg, mode, mem, old, discovered, selected, idx,
                 results, pnl_before, launched, stop, history, call, other, running>>

\* What a whole document written from offset 0 leaves in the file.  After
\* this writer's truncation the file is empty unless another writer has
\* written since; then the new document covers the other one, or is shorter
\* and leaves its tail behind, which is no JSON.
Written(state) ==
  IF fileKind = "ok"
  THEN { [kind |-> "ok", state |-> state], [kind |-> "partial", state |-> NoState] }
  ELSE { [kind |-> "ok", state |-> state] }

\* ... and json.dump() followed by the close of the file completes it.  With
\* track, the history of the writes follows.
SaveWriteOn(track) ==
  /\ pc = "write"
  /\ \E w \in Written(mem) :
       /\ fileKind' = w.kind
       /\ fileState' = w.state
  /\ other' = IF track
              THEN [other EXCEPT !.last = "main", !.overlaid = @ \/ fileKind = "ok"]
              ELSE other
  /\ pc' = "done"
  /\ UNCHANGED <<now, cycles, cfg, mode, mem, old, discovered, selected, idx,
                 results, pnl_before, launched, writes, stop, history, call, running>>

SaveWrite == SaveWriteOn(FALSE)

\* The invocation returns (or has exited): its locals are gone.
Exit ==
  /\ pc = "done"
  /\ pc' = "idle"
  /\ NoLocals
  /\ UNCHANGED <<now, disk, cycles, history, call, other, running>>

\* The process is killed at any point of the invocation.
CrashOn(track) ==
  /\ pc \notin {"idle", "done"}
  /\ pc' = "idle"
  /\ NoLocals
  /\ allOk' = IF track THEN FALSE ELSE allOk
  /\ UNCHANGED <<now, disk, cycles, picks, call, other, running>>

\* main(), --reset: STATE_FILE.unlink().
Reset ==
  /\ pc = "idle"
  /\ fileKind # "absent"
  /\ fileKind' = "absent"
  /\ fileState' = NoState
  /\ UNCHANGED <<now, cycles, pc, locals, history, call, other, running>>

\* The file is damaged between invocations (a failing disk, an editor, another
\* program): it no longer parses, or no longer holds a state.
Corrupt ==
  /\ pc = "idle"
  /\ fileKind # "absent"
  /\ fileKind' \in {"partial", "garbled"} \ {fileKind}
  /\ fileState' = NoState
  /\ UNCHANGED <<now, cycles, pc, locals, history, call, other, running>>

\* Time passes between invocations.
Tick ==
  /\ pc = "idle"
  /\ now < MaxTime
  /\ now' = now + 1
  /\ UNCHANGED <<disk, cycles, pc, locals, history, call, other, running>>

Start == StartOn(Configs, Modes, MaxCycles)
Discover == DiscoverOn(Discoveries)
Refresh == RefreshOn(Answers)
Select == SelectOn(FALSE)
SnapshotBefore == SnapshotBeforeOn(Snapshots)
RunSkill == RunSkillOn(Outcomes, FALSE)
Reward == RewardOn(Snapshots)
Crash == CrashOn(FALSE)

Next ==
  \/ Start
  \/ Discover
  \/ Refresh
  \/ ComputeTier
  \/ Select
  \/ SnapshotBefore
  \/ RunSkill
  \/ Reward
  \/ SaveOpen
  \/ SaveWrite
  \/ Exit
  \/ Crash
  \/ Reset
  \/ Tick

Spec == Init /\ [][Next]_vars

\* ------------------------------------------------------------------------
\* The pure functions, called on their own with arguments from bounded sets
\* ------------------------------------------------------------------------
TierInputs ==
  { [fn |-> "compute_tier",
     state |-> [init_state(b, h, 0, s) EXCEPT !.spent_usd = sp, !.realized_pnl = r],
     now |-> t] :
      b \in {-20, 0, 20, 40}, h \in 0 .. 2, s \in 0 .. 1, sp \in {0, 5, 20},
      r \in (0 - MaxLoss) .. MaxGain, t \in 0 .. MaxTime + 1 }

SlugNames == <<"a", "b", "c", "d", "e">>

\* A skill record by its slug, enabled flag, times_selected and total_pnl.
SkillWith(slug, enabled, stats) ==
  [NewSkill(Sk(slug, slug, "run.py")) EXCEPT
     !.enabled = enabled, !.times_selected = stats[1], !.total_pnl = stats[2],
     !.times_rewarded = IF stats[2] > 0 THEN 1 ELSE 0,
     !.last_run = IF stats[1] > 0 THEN 0 ELSE NoRun]

\* Unplayed; played once for 5; played twice for 5 in total; played twice
\* for 10 in total, the same average as once for 5.
StatsChoices == { <<0, 0>>, <<1, 5>>, <<2, 5>>, <<2, 10>> }

SkillLists ==
  UNION { { [i \in 1 .. k |-> SkillWith(SlugNames[i], e[i], st[i])] :
              e \in [1 .. k -> BOOLEAN], st \in [1 .. k -> StatsChoices] }
          : k \in 0 .. MaxSkills }

SelectInputs ==
  { [fn |-> "select_skills",
     state |-> [init_state(20, 1, eps, 0) EXCEPT !.tier = tr, !.skills = sk],
     n |-> n] :
      eps \in {0, 256, EpsDen}, tr \in {"normal", "conserving", "critical", "dead"},
      sk \in SkillLists, n \in 0 .. MaxN }

LimitInputs ==
  { [fn |-> "tier_limits", tier |-> tr, max_concurrent |-> mc, epsilon |-> eps] :
      tr \in Tiers, mc \in 0 .. MaxN, eps \in {0, 128, 256, EpsDen} }

\* P&L by source tag, as fetch_skill_pnl() returns it: a tag is missing
\* when no position carries it.
PnlMaps ==
  { << >>, ("a" :> 5), ("a" :> -3) @@ ("b" :> 2), ("a" :> 5) @@ ("b" :> 2) }

BanditInputs ==
  { [fn |-> "update_bandit",
     state |-> [init_state(20, 1, 256, 0) EXCEPT !.skills = sk],
     slug |-> slug, pnl_before |-> b, pnl_after |-> a] :
      sk \in SkillLists, slug \in {"a", "b", "c", "zz"}, b \in PnlMaps, a \in PnlMaps }

InitFn ==
  /\ Idle
  /\ arg \in TierInputs \cup SelectInputs \cup LimitInputs \cup BanditInputs
  /\ ret = NoRet
  /\ other = NoOther
  /\ running = {}

CallComputeTier ==
  /\ arg.fn = "compute_tier"
  /\ ~ret.done
  /\ ret' = [done |-> TRUE, val |-> compute_tier(arg.state, arg.now)]
  /\ UNCHANGED <<now, disk, cycles, pc, locals, history, arg, other, running>>

CallSelectSkills ==
  /\ arg.fn = "select_skills"
  /\ ~ret.done
  /\ ~select_skills_raises(arg.state, arg.n)
  /\ \E sel \in select_skills(arg.state, arg.n) : ret' = [done |-> TRUE, val |-> sel]
  /\ UNCHANGED <<now, disk, cycles, pc, locals, history, arg, other, running>>

\* tier_max_skills and tier_effective_epsilon, called for one tier.
CallTierLimits ==
  /\ arg.fn = "tier_limits"
  /\ ~ret.done
  /\ ret' = [done |-> TRUE,
             val |-> [max_skills |-> tier_max_skills(arg.tier, arg.max_concurrent),
                      epsilon2 |-> tier_effective_epsilon(arg.tier, arg.epsilon)]]
  /\ UNCHANGED <<now, disk, cycles, pc, locals, history, arg, other, running>>

CallUpdateBandit ==
  /\ arg.fn = "update_bandit"
  /\ ~ret.done
  /\ ret' = [done |-> TRUE,
             val |-> update_bandit(arg.state, arg.slug, arg.pnl_before,
                                   arg.pnl_after, 1)]
  /\ UNCHANGED <<now, disk, cycles, pc, locals, history, arg, other, running>>

NextFn ==
  \/ CallComputeTier
  \/ CallSelectSkills
  \/ CallTierLimits
  \/ CallUpdateBandit

SpecFn == InitFn /\ [][NextFn]_vars

\* ------------------------------------------------------------------------
\* Properties
\* ------------------------------------------------------------------------
\* C1: compute_tier returns exactly one of the five tiers for every input:
\* dead when budget_usd <= 0; otherwise dead iff the remaining budget
\* (budget - spent + realized) is <= 0 or the days elapsed reach horizon_days,
\* else critical below 10% remaining, else conserving below 30%, else thriving
\* when realized > 0 and more than 70% remains, else normal.
C1_TierRule ==
  (arg.fn = "compute_tier" /\ ret.done) =>
    LET st == arg.state
        b == st.budget_usd
        rem == b - st.spent_usd + st.realized_pnl
        expired == arg.now - st.started_at >= st.horizon_days
        alive == b > 0 /\ rem > 0 /\ ~expired
    IN /\ ret.val \in Tiers
       /\ (ret.val = "dead") <=> ~alive
       /\ (ret.val = "critical") <=> (alive /\ 10 * rem < b)
       /\ (ret.val = "conserving") <=> (alive /\ 10 * rem >= b /\ 10 * rem < 3 * b)
       /\ (ret.val = "thriving") <=>
            (alive /\ 10 * rem >= 3 * b /\ st.realized_pnl > 0 /\ 10 * rem > 7 * b)
       /\ (ret.val = "normal") <=>
            (alive /\ 10 * rem >= 3 * b /\ ~(st.realized_pnl > 0 /\ 10 * rem > 7 * b))

\* A call that returned thriving for a state with money spent.
C1_Witness ==
  /\ arg.fn = "compute_tier"
  /\ ret.done
  /\ ret.val = "thriving"
  /\ arg.state.spent_usd > 0

\* C4: for every state and every n >= 0, every slug select_skills returns is
\* an enabled skill of the state, no slug is returned twice, and at most n
\* slugs are returned.
C4_SelectionSound ==
  (arg.fn = "select_skills" /\ ret.done) =>
    LET sel == ret.val
        skills == arg.state.skills
    IN /\ \A i \in 1 .. Len(sel) :
            \E j \in 1 .. Len(skills) : skills[j].slug = sel[i] /\ skills[j].enabled
       /\ \A i, j \in 1 .. Len(sel) : sel[i] = sel[j] => i = j
       /\ Len(sel) <= arg.n

\* A call that returned two slugs by the epsilon-greedy branch from a state
\* that also holds a disabled skill.
C4_Witness ==
  /\ arg.fn = "select_skills"
  /\ ret.done
  /\ Len(ret.val) = 2
  /\ arg.state.tier = "normal"
  /\ \E j \in 1 .. Len(arg.state.skills) : ~arg.state.skills[j].enabled
  /\ \A j \in 1 .. Len(arg.state.skills) :
       arg.state.skills[j].enabled => arg.state.skills[j].times_selected > 0

\* The invocation is past step 4: the tier of mem is the one it computed.
TierComputed ==
  \/ pc \in {"select", "before", "run"}
  \/ pc \in {"save", "write", "done"} /\ stop \in {"dead", "dry-run", "persisted", "error"}

\* The bandit statistics of a slug in a dict of skills; a slug the dict does
\* not hold has those of a new record.
Stats(skills, slug) ==
  LET r == IF slug \in SlugsOf(skills) THEN skills[IndexOf(skills, slug)]
           ELSE NewSkill(Sk(slug, "", ""))
  IN <<r.total_pnl, r.times_selected, r.times_rewarded, r.last_run>>

\* C2 (as claimed): a cycle that loads a state whose tier is dead, and keeps
\* its budget_usd and horizon_days, computes the tier dead again.
C2_DeadStaysDead ==
  (TierComputed /\ old.tier = "dead"
     /\ mem.budget_usd = old.budget_usd /\ mem.horizon_days = old.horizon_days)
    => mem.tier = "dead"

\* C3: in a cycle whose computed tier is dead nothing is selected, no skill
\* is launched, no skill's statistics change, and the cycle goes on to save
\* and ends with the file holding its state, tier dead.
C3_DeadCycle ==
  (TierComputed /\ mem.tier = "dead") =>
    /\ pc \in {"save", "write", "done"}
    /\ stop = "dead"
    /\ selected = << >>
    /\ launched = << >>
    /\ \A s \in SlugsOf(mem.skills) : Stats(mem.skills, s) = Stats(old.skills, s)
    /\ pc = "done" => (fileKind = "ok" /\ fileState = mem /\ fileState.tier = "dead")

\* A dead cycle of a state with an enabled, played skill has ended.
C3_Witness ==
  /\ pc = "done"
  /\ stop = "dead"
  /\ \E i \in 1 .. Len(mem.skills) :
       mem.skills[i].enabled /\ mem.skills[i].times_selected > 0

\* ------------------------------------------------------------------------
\* Live cycles that choose one skill per cycle among a fixed set of skills
\* ------------------------------------------------------------------------
OneConfig == [BaseConfig EXCEPT !.max_concurrent = 1]
OneDiscovery == << Sk("a", "sdk:a", "run.py"), Sk("b", "sdk:b", "run.py"),
                   Sk("c", "sdk:c", "run.py") >>
OneSlugs == { OneDiscovery[i].slug : i \in 1 .. Len(OneDiscovery) }

StartOne == StartOn({OneConfig}, {[live |-> TRUE, key |-> TRUE]}, MaxCyclesOne)
DiscoverOne == DiscoverOn({OneDiscovery})
RefreshOne == RefreshOn({ a \in Answers : a.exposure = 0 })
SelectOne == SelectOn(TRUE)
RunSkillOne == RunSkillOn(Outcomes, TRUE)
CrashOne == CrashOn(TRUE)

NextOne ==
  \/ StartOne
  \/ DiscoverOne
  \/ RefreshOne
  \/ ComputeTier
  \/ SelectOne
  \/ SnapshotBefore
  \/ RunSkillOne
  \/ Reward
  \/ SaveOpen
  \/ SaveWrite
  \/ Exit
  \/ CrashOne
  \/ Tick

SpecOne == Init /\ [][NextOne]_vars

\* The invocation has run to a stop state that saves.
Saving == pc \in {"save", "write", "done"}

\* C5 (as claimed): with one skill chosen per live cycle over a fixed set of
\* enabled skills, no skill is selected a second time before every enabled
\* skill has been selected once.
C5_OnceBeforeTwice ==
  \A s \in DOMAIN picks :
    picks[s] >= 2 => \A t \in OneSlugs : Get(picks, t) >= 1

\* C5 (amended): the same, as long as every run so far succeeded and no
\* invocation was killed.
C5_OnceBeforeTwiceIfOk == allOk => C5_OnceBeforeTwice

\* Three cycles whose runs all succeeded have selected the three skills.
C5_Witness ==
  /\ allOk
  /\ pc = "done"
  /\ stop = "persisted"
  /\ \A t \in OneSlugs : Get(picks, t) = 1

\* C6: in a live cycle a skill's statistics are updated iff it was selected
\* and its run succeeded: times_selected of such a skill is one higher, and
\* total_pnl, times_selected, times_rewarded and last_run of every other skill
\* are what they were before the cycle.
C6_RewardIffSuccess ==
  (Saving /\ mode.live) =>
    \A s \in SlugsOf(mem.skills) :
      LET before == Stats(old.skills, s)
          after == Stats(mem.skills, s)
          succeeded == /\ s \in Range(selected)
                       /\ s \in DOMAIN results
                       /\ results[s].success
      IN IF succeeded THEN after[2] = before[2] + 1 ELSE after = before

\* A live cycle has ended in which one selected skill succeeded and another
\* failed.
C6_Witness ==
  /\ pc = "done"
  /\ stop = "persisted"
  /\ \E s, t \in Range(selected) :
       /\ results[s].success
       /\ ~results[t].success
       /\ Stats(mem.skills, s) # Stats(old.skills, s)

\* The epsilon a cycle ends with, had it decayed the one it started from once.
DecayedOnce == Max(cfg.min_epsilon, (old.epsilon * cfg.epsilon_decay) \div DecayDen)

\* C7 (as claimed): the epsilon a cycle persists is not above the one it
\* started from and not below the configured min_epsilon.
C7_EpsilonBounds ==
  (pc = "done" /\ writes > 0) =>
    /\ fileState.epsilon <= old.epsilon
    /\ fileState.epsilon >= cfg.min_epsilon

\* C7 (amended): the same, for a cycle whose configuration has
\* epsilon_decay <= 1 and 0 <= min_epsilon <= the epsilon the cycle starts from.
C7_EpsilonBoundsValidConfig ==
  (cfg.epsilon_decay <= DecayDen /\ 0 <= cfg.min_epsilon
     /\ cfg.min_epsilon <= old.epsilon)
    => C7_EpsilonBounds

\* A live cycle under such a configuration has persisted a smaller epsilon.
C7_Witness ==
  /\ pc = "done"
  /\ stop = "persisted"
  /\ cfg.epsilon_decay <= DecayDen
  /\ cfg.min_epsilon <= old.epsilon
  /\ fileState.epsilon < old.epsilon

\* C8 (as claimed): every cycle that reaches selection, live or dry run, ends
\* with epsilon decayed exactly once.
C8_DecayEveryCycle ==
  (Saving /\ stop \in {"dry-run", "persisted"}) => mem.epsilon = DecayedOnce

\* C8 (amended): a live cycle that reaches selection ends with epsilon decayed
\* exactly once, whatever was selected; a dry run leaves epsilon as it was.
C8_DecayLiveOnly ==
  /\ (Saving /\ stop = "persisted") => mem.epsilon = DecayedOnce
  /\ (Saving /\ stop = "dry-run") => mem.epsilon = old.epsilon

\* A live cycle that launched a skill has ended with a decayed epsilon, and
\* decaying it once more would have changed it again.
C8_Witness ==
  /\ pc = "done"
  /\ stop = "persisted"
  /\ launched # << >>
  /\ mem.epsilon # old.epsilon
  /\ decay(mem, cfg).epsilon # mem.epsilon

\* C9 (as claimed): cycle_count is one higher after every cycle that runs to
\* a stop state: a full live cycle, a dry run, a stop for want of skills.
C9_CountEveryStop ==
  (Saving /\ stop \in {"persisted", "dry-run", "no-skills"})
    => mem.cycle_count = old.cycle_count + 1

\* C9 (amended): cycle_count never decreases; it is one higher after a full
\* live cycle and after a dry run, and unchanged after a cycle that stops
\* because no skill is known, because the tier is dead, or by an abort.
C9_CountSelectionCycles ==
  pc # "idle" =>
    /\ mem.cycle_count >= old.cycle_count
    /\ (Saving /\ stop \in {"persisted", "dry-run"})
         => mem.cycle_count = old.cycle_count + 1
    /\ stop \in {"no-skills", "dead", "fatal", "error"}
         => mem.cycle_count = old.cycle_count

\* A dry run that followed a counted cycle has saved its state, counted again.
C9_Witness ==
  /\ pc = "done"
  /\ stop = "dry-run"
  /\ old.cycle_count = 1
  /\ fileState = mem
  /\ fileState.cycle_count = 2

\* C10 (as claimed): whenever no invocation is running, also after one was
\* killed, the state file is absent or holds a complete state.
C10_NoPartialFile == pc = "idle" => fileKind \in {"absent", "ok"}

\* C11 (as claimed): no step of a live invocation without the credential
\* changes the state file, whatever the prior state and the discovered skills.
C11_NoKeyNoMutation ==
  [][(pc # "idle" /\ mode.live /\ ~mode.key) => UNCHANGED disk]_vars

\* C12: in a live cycle the loop of step 8 launches the selected skills one
\* by one, in order, each once, whatever the outcomes of the runs before; no
\* abort happens once a skill is launched; and a cycle that has left the loop
\* has rewarded, decayed epsilon once, counted the cycle and goes on to save
\* its state.
C12_FailureNeverAborts ==
  /\ pc = "run" => launched = SubSeq(selected, 1, idx - 1)
  /\ launched # << >> => stop \in {"", "persisted"}
  /\ (Saving /\ stop = "persisted") =>
       /\ launched = selected
       /\ mem.epsilon = DecayedOnce
       /\ mem.cycle_count = old.cycle_count + 1
       /\ pc = "done" => (fileKind = "ok" /\ fileState = mem)

\* A live cycle whose first run failed has launched its second skill and has
\* persisted.
C12_Witness ==
  /\ pc = "done"
  /\ stop = "persisted"
  /\ Len(launched) = 2
  /\ ~results[launched[1]].success
  /\ fileState = mem

\* ------------------------------------------------------------------------
\* Dry-run cycles under the default configuration, the skill directory
\* changing between them and the state file open to damage
\* ------------------------------------------------------------------------
StartDry == StartOn({BaseConfig}, {[live |-> FALSE, key |-> FALSE]}, MaxCyclesDry)

NextDry ==
  \/ StartDry
  \/ Discover
  \/ ComputeTier
  \/ Select
  \/ SaveOpen
  \/ SaveWrite
  \/ Exit
  \/ Crash
  \/ Reset
  \/ Corrupt
  \/ Tick

SpecDry == Init /\ [][NextDry]_vars

\* The invocation is past the sync of the discovered skills into its state.
Reconciled == pc \notin {"idle", "discover"}

\* C13: a cycle's state holds every skill record of the state it loaded; the
\* sync of the discovered skills leaves total_pnl, times_selected,
\* times_rewarded and last_run of each as loaded, also for a skill that is
\* rediscovered or missing; and what the cycle saves holds every slug that
\* was loaded.
C13_ReconcileKeepsRecords ==
  Reconciled =>
    /\ \A s \in SlugsOf(old.skills) : s \in SlugsOf(mem.skills)
    /\ pc \in {"refresh", "tier", "select", "before", "run"} =>
         \A s \in SlugsOf(old.skills) : Stats(mem.skills, s) = Stats(old.skills, s)
    /\ (pc = "done" /\ writes > 0) =>
         \A s \in SlugsOf(old.skills) : s \in SlugsOf(fileState.skills)

\* A cycle has synced a discovery pass in which one played skill is missing
\* and another played skill came back with a different source_tag.
C13_Witness ==
  /\ pc = "tier"
  /\ \E i \in 1 .. Len(mem.skills) :
       mem.skills[i].times_selected > 0 /\ ~mem.skills[i].enabled
  /\ \E j \in 1 .. Len(old.skills) :
       /\ mem.skills[j].times_selected > 0
       /\ mem.skills[j].source_tag # old.skills[j].source_tag

\* C14 (as claimed): after the sync of a cycle a skill record is enabled iff
\* its slug is in that cycle's discovery pass.
C14_EnabledIffDiscovered ==
  Reconciled =>
    \A i \in 1 .. Len(mem.skills) :
      mem.skills[i].enabled <=>
        mem.skills[i].slug \in { discovered[k].slug : k \in 1 .. Len(discovered) }

\* C15: tier_history is append-only within a cycle.  Up to the computation of
\* the tier it is as loaded; after it, it is the loaded history followed by
\* the one record {from: the stored tier, to: the computed tier} when the two
\* differ, and the loaded history when they are equal; and what a cycle saves
\* is that history.
C15_TierHistoryAppendOnly ==
  /\ (pc # "idle" /\ ~TierComputed) => mem.tier_history = old.tier_history
  /\ TierComputed =>
       mem.tier_history =
         IF mem.tier # old.tier
         THEN Append(old.tier_history,
                     [from |-> old.tier, to |-> mem.tier, at |-> now])
         ELSE old.tier_history
  /\ (pc = "done" /\ writes > 0) => fileState.tier_history = mem.tier_history

\* A cycle that loaded a history of one record has saved a history of two.
C15_Witness ==
  /\ pc = "done"
  /\ Len(old.tier_history) = 1
  /\ Len(fileState.tier_history) = 2
  /\ fileState.tier_history[1] = old.tier_history[1]

\* C16 (as claimed): an invocation that finds the state file present but
\* damaged starts from the fresh state of the configured budget and horizon
\* and does not end with a fatal error.
C16_DamagedAsAbsent ==
  [][(pc = "idle" /\ pc' # "idle" /\ fileKind \in {"partial", "garbled"}) =>
       /\ mem' = init_state(cfg'.budget_usd, cfg'.horizon_days, cfg'.epsilon, now)
       /\ stop' # "fatal"]_vars

\* C17: selection alone changes no statistic: a live cycle between its
\* selection and its reward step has every skill's total_pnl, times_selected,
\* times_rewarded and last_run as loaded.  A dry run never is at a call of the
\* trading collaborator (steps 3, 7, 9) nor in the run loop, launches nothing,
\* keeps those statistics and realized_pnl and unrealized_pnl as loaded, and
\* ends with the file holding its state.
C17_DryRunFrame ==
  /\ pc \in {"before", "run"} =>
       \A s \in SlugsOf(mem.skills) : Stats(mem.skills, s) = Stats(old.skills, s)
  /\ (pc # "idle" /\ ~mode.live) =>
       /\ pc \notin {"refresh", "before", "run"}
       /\ launched = << >>
       /\ results = << >>
       /\ \A s \in SlugsOf(mem.skills) : Stats(mem.skills, s) = Stats(old.skills, s)
       /\ mem.realized_pnl = old.realized_pnl
       /\ mem.unrealized_pnl = old.unrealized_pnl
       /\ (pc = "done" /\ stop = "dry-run") =>
            (writes = 1 /\ fileKind = "ok" /\ fileState = mem)

\* A dry run that loaded a played skill and a non-zero realized_pnl has
\* selected a skill and saved.
C17_Witness ==
  /\ pc = "done"
  /\ stop = "dry-run"
  /\ ~mode.live
  /\ selected # << >>
  /\ old.realized_pnl # 0
  /\ \E i \in 1 .. Len(old.skills) : old.skills[i].times_selected > 0
  /\ fileState = mem

\* C18: for each of the five tiers tier_max_skills and tier_effective_epsilon
\* return: max_concurrent and epsilon for thriving and normal, 1 and half of
\* epsilon for conserving, 1 and 0 for critical, 0 and 0 for dead.  (epsilon2
\* is twice the returned rate, so half of epsilon reads epsilon2 = epsilon.)
C18_TierLimits ==
  (arg.fn = "tier_limits" /\ ret.done) =>
    LET tr == arg.tier
        v == ret.val
    IN /\ tr \in {"thriving", "normal"} =>
            (v.max_skills = arg.max_concurrent /\ v.epsilon2 = 2 * arg.epsilon)
       /\ tr = "conserving" => (v.max_skills = 1 /\ v.epsilon2 = arg.epsilon)
       /\ tr = "critical" => (v.max_skills = 1 /\ v.epsilon2 = 0)
       /\ tr = "dead" => (v.max_skills = 0 /\ v.epsilon2 = 0)

\* The two functions have returned for the critical tier with a positive
\* epsilon and room for three skills.
C18_Witness ==
  /\ arg.fn = "tier_limits"
  /\ ret.done
  /\ arg.tier = "critical"
  /\ arg.epsilon > 0
  /\ arg.max_concurrent = 3
  /\ ret.val.max_skills = 1

\* ------------------------------------------------------------------------
\* Live cycles over two skills, up to two chosen per cycle
\* ------------------------------------------------------------------------
TwoDiscovery == << Sk("a", "sdk:a", "run.py"), Sk("b", "sdk:b", "run.py") >>

StartTwo == StartOn({BaseConfig}, {[live |-> TRUE, key |-> TRUE]}, MaxCyclesTwo)
DiscoverTwo == DiscoverOn({TwoDiscovery})

NextTwo ==
  \/ StartTwo
  \/ DiscoverTwo
  \/ RefreshOne
  \/ ComputeTier
  \/ SelectOne
  \/ SnapshotBefore
  \/ RunSkillOne
  \/ Reward
  \/ SaveOpen
  \/ SaveWrite
  \/ Exit
  \/ CrashOne
  \/ Tick

SpecTwo == Init /\ [][NextTwo]_vars

\* s is enabled and unplayed, and every other enabled skill has been played.
OnlyUnplayed(state, s) ==
  \E i \in 1 .. Len(state.skills) :
    /\ state.skills[i].slug = s
    /\ state.skills[i].enabled
    /\ state.skills[i].times_selected = 0
    /\ \A j \in 1 .. Len(state.skills) :
         (j # i /\ state.skills[j].enabled) => state.skills[j].times_selected > 0

\* C19: a skill that was loaded unplayed and whose run in this cycle did not
\* succeed is still unplayed; and in a live cycle that has selected with a
\* tier that allows at least one skill, a skill that is the only unplayed
\* enabled one is selected, first in the list.
C19_FailingSkillRetried ==
  /\ pc # "idle" =>
       \A s \in SlugsOf(mem.skills) :
         (Stats(old.skills, s)[2] = 0 /\ ~(s \in DOMAIN results /\ results[s].success))
           => Stats(mem.skills, s)[2] = 0
  /\ pc \in {"before", "run"} =>
       \A s \in SlugsOf(mem.skills) :
         (OnlyUnplayed(mem, s) /\ tier_max_skills(mem.tier, cfg.max_concurrent) >= 1)
           => (selected # << >> /\ selected[1] = s)

\* A skill selected in an earlier cycle and still unplayed is selected again,
\* ahead of a played skill, and its run fails again.
C19_Witness ==
  /\ pc = "run"
  /\ idx = 2
  /\ Get(picks, "a") = 2
  /\ OnlyUnplayed(mem, "a")
  /\ selected = <<"a", "b">>
  /\ ~results["a"].success

\* ------------------------------------------------------------------------
\* Two invocations on one state file: live cycles over two skills, and one
\* dry run started at any moment (a manual run next to the scheduled one)
\* ------------------------------------------------------------------------
\* The second invocation, step 1: load or init the state.
OtherLoad ==
  /\ other.pc = "idle"
  /\ other' = [other EXCEPT
       !.pc = "work",
       !.old = IF load_state_none
               THEN init_state(BaseConfig.budget_usd, BaseConfig.horizon_days,
                               BaseConfig.epsilon, now)
               ELSE fileState,
       !.mem = IF load_state_none
               THEN init_state(BaseConfig.budget_usd, BaseConfig.horizon_days,
                               BaseConfig.epsilon, now)
               ELSE fileState,
       !.loadCycle = cycles,
       !.loadEarly = pc \notin {"idle", "write", "done"}]
  /\ UNCHANGED <<now, disk, cycles, pc, locals, history, call, running>>

\* The state a dry run is about to save: the sync of the discovered skills,
\* the tier, and, unless dead, the selection (which changes nothing) and the
\* cycle count.
dry_run(state, disc, t) ==
  LET tiered == with_tier(reconcile(state, disc), t)
  IN IF tiered.tier = "dead" THEN tiered
     ELSE [tiered EXCEPT !.cycle_count = @ + 1]

\* The second invocation, steps 2 to 6.
OtherWork ==
  /\ other.pc = "work"
  /\ other' = [other EXCEPT
       !.pc = "save",
       !.mem = dry_run(@, TwoDiscovery, now),
       !.stop = IF dry_run(other.mem, TwoDiscovery, now).tier = "dead"
                THEN "dead" ELSE "dry-run"]
  /\ UNCHANGED <<now, disk, cycles, pc, locals, history, call, running>>

\* The second invocation, save_state(): open(p, "w") ...
OtherSaveOpen ==
  /\ other.pc = "save"
  /\ fileKind' = "partial"
  /\ fileState' = NoState
  /\ other' = [other EXCEPT !.pc = "write",
                            !.openCycle = IF pc = "idle" THEN 0 ELSE cycles]
  /\ UNCHANGED <<now, cycles, pc, locals, history, call, running>>

\* OtherSaveWrite reading the file again and adding its cycle to the count
\* it finds there.
OtherSaveWriteMerging ==
  /\ other.pc = "write"
  /\ fileKind' = "ok"
  /\ fileState' = IF fileKind = "ok"
                  THEN [other.mem EXCEPT !.cycle_count = fileState.cycle_count + 1]
                  ELSE other.mem
  /\ other' = [other EXCEPT !.pc = "done", !.last = "other"]
  /\ UNCHANGED <<now, cycles, pc, locals, history, call, running>>

\* ... and json.dump() and the close.
OtherSaveWrite ==
  /\ other.pc = "write"
  /\ \E w \in Written(other.mem) :
       /\ fileKind' = w.kind
       /\ fileState' = w.state
  /\ other' = [other EXCEPT !.pc = "done", !.last = "other",
                            !.overlaid = @ \/ fileKind = "ok"]
  /\ UNCHANGED <<now, cycles, pc, locals, history, call, running>>

StartPair == StartOn({BaseConfig}, {[live |-> TRUE, key |-> TRUE]}, MaxCyclesPair)
SaveWritePair == SaveWriteOn(TRUE)

NextPair ==
  \/ StartPair
  \/ DiscoverTwo
  \/ RefreshOne
  \/ ComputeTier
  \/ Select
  \/ SnapshotBefore
  \/ RunSkill
  \/ Reward
  \/ SaveOpen
  \/ SaveWritePair
  \/ Exit
  \/ OtherLoad
  \/ OtherWork
  \/ OtherSaveOpen
  \/ OtherSaveWrite

SpecPair == Init /\ [][NextPair]_vars

\* Both invocations have run to their end and counted their cycle.
BothDone ==
  /\ pc = "done"
  /\ stop = "persisted"
  /\ other.pc = "done"
  /\ other.stop = "dry-run"

\* The two overlapped: they loaded the same state, and each had loaded it
\* when the other began to save.
Overlapped ==
  /\ BothDone
  /\ other.old = old
  /\ other.openCycle = cycles
  /\ (other.loadCycle < cycles \/ other.loadEarly)

LaunchSkillNoWait ==
  /\ pc = "run"
  /\ idx <= Len(selected)
  /\ running' = running \cup {selected[idx]}
  /\ launched' = Append(launched, selected[idx])
  /\ results' = (selected[idx] :> run_result("ok")) @@ results
  /\ idx' = idx + 1
  /\ UNCHANGED <<now, disk, cycles, pc, cfg, mode, mem, old, discovered, selected,
                 pnl_before, writes, stop, history, call, other>>

\* Step 8, run_skill(): subprocess.run() starts the child ...
LaunchSkill ==
  /\ pc = "run"
  /\ idx <= Len(selected)
  /\ running' = running \cup {selected[idx]}
  /\ launched' = Append(launched, selected[idx])
  /\ pc' = "wait"
  /\ UNCHANGED <<now, disk, cycles, cfg, mode, mem, old, discovered, selected, idx,
                 results, pnl_before, writes, stop, history, call, other>>

\* ResolveSkill starting over with the same skill when its run did not succeed.
ResolveSkillRetrying ==
  /\ pc = "wait"
  /\ \E o \in Outcomes :
       /\ results' = (selected[idx] :> run_result(o)) @@ results
       /\ idx' = IF o = "ok" THEN idx + 1 ELSE idx
       /\ launched' = IF o = "ok" THEN launched ELSE SubSeq(launched, 1, Len(launched) - 1)
  /\ running' = running \ {selected[idx]}
  /\ pc' = "run"
  /\ UNCHANGED <<now, disk, cycles, cfg, mode, mem, old, discovered, selected,
                 pnl_before, writes, stop, history, call, other>>

\* ... and returns when the child has exited, or after 120 s has been killed
\* and reaped; the loop then goes on to the next slug.
ResolveSkill ==
  /\ pc = "wait"
  /\ \E o \in Outcomes : results' = (selected[idx] :> run_result(o)) @@ results
  /\ running' = running \ {selected[idx]}
  /\ idx' = idx + 1
  /\ pc' = "run"
  /\ UNCHANGED <<now, disk, cycles, cfg, mode, mem, old, discovered, selected,
                 pnl_before, launched, writes, stop, history, call, other>>

StartSeq == StartOn({BaseConfig}, {[live |-> TRUE, key |-> TRUE]}, MaxCyclesSeq)

NextSeq ==
  \/ StartSeq
  \/ DiscoverTwo
  \/ RefreshOne
  \/ ComputeTier
  \/ Select
  \/ SnapshotBefore
  \/ LaunchSkill
  \/ ResolveSkill
  \/ Reward
  \/ SaveOpen
  \/ SaveWrite
  \/ Exit
  \/ Tick

SpecSeq == Init /\ [][NextSeq]_vars

\* C21: within a live cycle at most one skill process is running; while one
\* runs, every skill launched before it has resolved; nothing is launched
\* when the before-snapshot is taken, and nothing is running once the
\* after-snapshot has been taken.
C21_OneAtATime ==
  /\ Cardinality(running) <= 1
  /\ running # {} =>
       /\ pc = "wait"
       /\ running = {launched[Len(launched)]}
       /\ \A i \in 1 .. Len(launched) - 1 : launched[i] \in DOMAIN results
  /\ pc = "before" => (launched = << >> /\ running = {})
  /\ (Saving /\ stop = "persisted") =>
       (running = {} /\ \A i \in 1 .. Len(launched) : launched[i] \in DOMAIN results)

\* The second selected skill is running after the first was cut off or failed.
C21_Witness ==
  /\ pc = "wait"
  /\ Len(launched) = 2
  /\ running = {launched[2]}
  /\ ~results[launched[1]].success

\* C22: the skills launched in a cycle are at most max_concurrent when the
\* tier computed in the cycle is thriving or normal, at most one when it is
\* conserving or critical, and none when it is dead.
C22_LaunchLimit ==
  /\ launched # << >> => (mode.live /\ pc \in {"run", "save", "write", "done"})
  /\ mem # NoState =>
       /\ mem.tier \in {"thriving", "normal"} => Len(launched) <= cfg.max_concurrent
       /\ mem.tier \in {"conserving", "critical"} => Len(launched) <= 1
       /\ mem.tier = "dead" => Len(launched) = 0

\* Under pressure, with two skills enabled and two allowed by the
\* configuration, the loop has ended after one launch.
C22_Witness ==
  /\ pc = "run"
  /\ idx > Len(selected)
  /\ mem.tier \in {"conserving", "critical"}
  /\ cfg.max_concurrent = 2
  /\ Len(EnabledSlugs(mem)) = 2
  /\ Len(launched) = 1

\* The enabled slugs of a state that have never been selected.
UnplayedSlugs(state) ==
  SelectSeq(EnabledSlugs(state),
            LAMBDA s : state.skills[IndexOf(state.skills, s)].times_selected = 0)

\* C23: when an enabled skill is unplayed, select_skills(state, n) returns
\* min(n, enabled) distinct enabled slugs, min(n, unplayed) of them unplayed,
\* and a played skill only together with every unplayed enabled skill.
C23_UnplayedFirst ==
  (ret.done /\ arg.fn = "select_skills" /\ UnplayedSlugs(arg.state) # << >>) =>
    LET enabled == Range(EnabledSlugs(arg.state))
        unplayed == Range(UnplayedSlugs(arg.state))
        got == Range(ret.val)
    IN /\ Len(ret.val) = Min(arg.n, Cardinality(enabled))
       /\ Cardinality(got) = Len(ret.val)
       /\ got \subseteq enabled
       /\ Cardinality(got \cap unplayed) = Min(arg.n, Cardinality(unplayed))
       /\ (got \ unplayed # {}) => unplayed \subseteq got

\* Two of three enabled skills asked for, one of them unplayed: the unplayed
\* one and a played one are returned.
C23_Witness ==
  /\ ret.done
  /\ arg.fn = "select_skills"
  /\ arg.n = 2
  /\ Len(EnabledSlugs(arg.state)) = 3
  /\ Len(UnplayedSlugs(arg.state)) = 1
  /\ Len(ret.val) = 2
  /\ ret.val[1] = UnplayedSlugs(arg.state)[1]

\* x is ranked before y: a higher average reward, or the same average and
\* an earlier place in the iteration order of the skills.
RankedBefore(state, x, y) ==
  LET i == IndexOf(state.skills, x)
      j == IndexOf(state.skills, y)
  IN \/ AvgGreater(state.skills[i], state.skills[j])
     \/ (~AvgGreater(state.skills[j], state.skills[i]) /\ i < j)

\* C24: in the critical tier with every enabled skill played, select_skills
\* has one possible result: the min(n, enabled) enabled skills of highest
\* average reward, in descending order with ties in iteration order; it is
\* the result of the epsilon-greedy loop when every draw exploits.
C24_CriticalBest ==
  (/\ ret.done
   /\ arg.fn = "select_skills"
   /\ arg.state.tier = "critical"
   /\ EnabledSlugs(arg.state) # << >>
   /\ UnplayedSlugs(arg.state) = << >>) =>
    LET slugs == EnabledSlugs(arg.state)
        rec == [s \in SlugsOf(arg.state.skills) |->
                  arg.state.skills[IndexOf(arg.state.skills, s)]]
        m == Min(arg.n, Len(slugs))
    IN /\ select_skills(arg.state, arg.n) = { ret.val }
       /\ Len(ret.val) = m
       /\ Range(ret.val) \subseteq Range(slugs)
       /\ \A i, j \in 1 .. m : i < j => RankedBefore(arg.state, ret.val[i], ret.val[j])
       /\ \A x \in Range(slugs) \ Range(ret.val) :
            \A i \in 1 .. m : RankedBefore(arg.state, ret.val[i], x)
       /\ Draws(slugs, m, 0, rec) = { ret.val }

\* Three played skills, the first with a lower average than the two others,
\* which tie: two are asked for, and the tied ones come back in their order.
C24_Witness ==
  /\ ret.done
  /\ arg.fn = "select_skills"
  /\ arg.state.tier = "critical"
  /\ arg.n = 2
  /\ EnabledSlugs(arg.state) = <<"a", "b", "c">>
  /\ Stats(arg.state.skills, "a")[2] = 2 /\ Stats(arg.state.skills, "a")[1] = 5
  /\ Stats(arg.state.skills, "b")[2] = 2 /\ Stats(arg.state.skills, "b")[1] = 10
  /\ Stats(arg.state.skills, "c")[2] = 1 /\ Stats(arg.state.skills, "c")[1] = 5
  /\ ret.val = <<"b", "c">>

\* C25: update_bandit for a known slug adds the change of the P&L under the
\* skill's source tag (a missing tag counting as 0) to total_pnl, raises
\* times_selected by one and times_rewarded by one iff the change is
\* positive, and leaves every other skill's record as it was; for an unknown
\* slug it changes nothing.
C25_UpdateBandit ==
  (ret.done /\ arg.fn = "update_bandit") =>
    LET before == arg.state
        after == ret.val
        i == IndexOf(before.skills, arg.slug)
        tag == before.skills[i].source_tag
        delta == (IF tag \in DOMAIN arg.pnl_after THEN arg.pnl_after[tag] ELSE 0)
                 - (IF tag \in DOMAIN arg.pnl_before THEN arg.pnl_before[tag] ELSE 0)
    IN IF \A k \in 1 .. Len(before.skills) : before.skills[k].slug # arg.slug
       THEN after = before
       ELSE /\ after.skills[i].total_pnl = before.skills[i].total_pnl + delta
            /\ after.skills[i].times_selected = before.skills[i].times_selected + 1
            /\ after.skills[i].times_rewarded =
                 before.skills[i].times_rewarded + (IF delta > 0 THEN 1 ELSE 0)
            /\ Len(after.skills) = Len(before.skills)
            /\ \A k \in 1 .. Len(before.skills) :
                 k # i => after.skills[k] = before.skills[k]
            /\ [after EXCEPT !.skills = before.skills] = before

\* Skill b of two, whose tag is missing from the snapshot before the run and
\* worth 2 after it, is rewarded; skill a keeps its record.
C25_Witness ==
  /\ ret.done
  /\ arg.fn = "update_bandit"
  /\ arg.slug = "b"
  /\ Len(arg.state.skills) = 2
  /\ "b" \notin DOMAIN arg.pnl_before
  /\ "b" \in DOMAIN arg.pnl_after
  /\ ret.val.skills[2].times_rewarded = arg.state.skills[2].times_rewarded + 1
  /\ ret.val.skills[1] = arg.state.skills[1]

\* C26 (as stated): after every cycle that persists state, the persisted
\* tier is compute_tier of the persisted budget, spend, realized P&L, start
\* and horizon at the cycle's time, cycles that stop for want of skills
\* included.
C26_TierPersisted ==
  (pc = "done" /\ stop \in {"no-skills", "dead", "dry-run", "persisted"}) =>
    /\ fileKind = "ok"
    /\ fileState.tier = compute_tier(fileState, now)

\* C26 (amended): that holds after the cycles that stop as dead, as a dry
\* run or after the rewards, overrides included; a cycle that stops because
\* no skill is known persists the tier it loaded, or "normal" in a fresh
\* state, without computing it.
C26_TierPersistedPastDiscovery ==
  /\ (pc = "done" /\ stop \in {"dead", "dry-run", "persisted"}) =>
       /\ fileKind = "ok"
       /\ fileState.tier = compute_tier(fileState, now)
  /\ (pc = "done" /\ stop = "no-skills") =>
       /\ fileKind = "ok"
       /\ fileState.tier = IF old = NoState THEN "normal" ELSE old.tier

\* A cycle that applied an override to a loaded state persisted another
\* tier than the one it loaded.
C26_Witness ==
  /\ pc = "done"
  /\ stop \in {"dead", "dry-run", "persisted"}
  /\ cfg.budget_override
  /\ old # NoState
  /\ fileState.tier # old.tier

\* ------------------------------------------------------------------------
\* Cycles whose steps are all taken sooner or later: the interpreter goes on,
\* every call to the trading collaborator returns or raises, every skill
\* process exits or is cut off by its timeout, and nothing kills the cycle
\* ------------------------------------------------------------------------
StartLive == StartOn(Configs, Modes, MaxCyclesLive)

NextLive ==
  \/ StartLive
  \/ Discover
  \/ Refresh
  \/ ComputeTier
  \/ Select
  \/ SnapshotBefore
  \/ LaunchSkill
  \/ ResolveSkill
  \/ Reward
  \/ SaveOpen
  \/ SaveWrite
  \/ Exit
  \/ Reset
  \/ Corrupt
  \/ Tick

SpecLive ==
  /\ Init
  /\ [][NextLive]_vars
  /\ WF_vars(Discover)
  /\ WF_vars(Refresh)
  /\ WF_vars(ComputeTier)
  /\ WF_vars(Select)
  /\ WF_vars(SnapshotBefore)
  /\ WF_vars(LaunchSkill)
  /\ WF_vars(ResolveSkill)
  /\ WF_vars(Reward)
  /\ WF_vars(SaveOpen)
  /\ WF_vars(SaveWrite)

\* C27: every invocation of a cycle reaches a stop state (no skills, dead,
\* dry run, persisted, or a fatal abort), whatever the skills' runs and the
\* collaborator's answers are.
C27_CycleStops ==
  (pc # "idle") ~>
    (pc = "done" /\ stop \in {"no-skills", "dead", "dry-run", "persisted", "fatal"})

\* A cycle is done and persisted after both its skills failed and the
\* collaborator gave no trade before the runs.
C27_Witness ==
  /\ pc = "done"
  /\ stop = "persisted"
  /\ Len(launched) = 2
  /\ \A i \in 1 .. 2 : ~results[launched[i]].success
  /\ pnl_before = << >>

\* Every skill record of a state has 0 <= times_rewarded <= times_selected
\* <= cycle_count.
CountsOrdered(state) ==
  \A i \in 1 .. Len(state.skills) :
    /\ 0 <= state.skills[i].times_rewarded
    /\ state.skills[i].times_rewarded <= state.skills[i].times_selected
    /\ state.skills[i].times_selected <= state.cycle_count

\* C28: in every state reached by cycles from a fresh state, in memory
\* between the steps of a cycle and in the file, every skill record has
\* 0 <= times_rewarded <= times_selected <= cycle_count.
C28_CountsOrdered ==
  /\ mem # NoState => CountsOrdered(mem)
  /\ fileKind = "ok" => CountsOrdered(fileState)

\* After two cycles, a skill rewarded once and selected twice is persisted.
C28_Witness ==
  /\ fileKind = "ok"
  /\ fileState.cycle_count = 2
  /\ \E i \in 1 .. Len(fileState.skills) :
       /\ fileState.skills[i].times_rewarded = 1
       /\ fileState.skills[i].times_selected = 2

\* spent_usd is 0, so that what remains of the budget is the budget plus the
\* realized P&L, and it is used up only by a negative realized P&L.
NothingSpent(state) ==
  /\ state.spent_usd = 0
  /\ state.budget_usd - state.spent_usd + state.realized_pnl
       = state.budget_usd + state.realized_pnl
  /\ (state.budget_usd > 0
      /\ state.budget_usd - state.spent_usd + state.realized_pnl <= 0)
       => state.realized_pnl < 0

\* C29: no cycle, live or dry, changes spent_usd or started_at of the state
\* it loaded, and spent_usd is 0 in every reachable state, in memory and in
\* the file.
C29_SpendAndStartFrozen ==
  /\ mem # NoState => NothingSpent(mem)
  /\ fileKind = "ok" => NothingSpent(fileState)
  /\ (mem # NoState /\ old # NoState) =>
       /\ mem.spent_usd = old.spent_usd
       /\ mem.started_at = old.started_at
  /\ (pc = "done" /\ stop \in {"no-skills", "dead", "dry-run", "persisted"}
      /\ old # NoState) =>
       /\ fileState.spent_usd = old.spent_usd
       /\ fileState.started_at = old.started_at

\* A live cycle that began a day after the start, refreshed the realized P&L
\* to a loss and saved, with the start and the spend as loaded.
C29_Witness ==
  /\ pc = "done"
  /\ mode.live
  /\ stop \in {"dead", "persisted"}
  /\ old # NoState
  /\ now > old.started_at
  /\ fileState.realized_pnl < 0
  /\ fileState.realized_pnl # old.realized_pnl
  /\ fileState.started_at = old.started_at
  /\ fileState.spent_usd = 0

====
